---- MODULE Spec2Model ----
(***************************************************************************)
(* The order-creation saga of the order service (src/order-service/app.py) *)
(* together with the billing service it calls                              *)
(* (src/billing-service/app.py).  Money is counted in cents; a request     *)
(* price is given in thousandths (mills) so that round(v, 2) is visible.   *)
(***************************************************************************)
EXTENDS Integers, Sequences, FiniteSets, TLC

\* ------------------------------------------------------------------ bounds
NumSagas == 2            \* create-order requests in one behaviour
NumDeposits == 1         \* deposit requests in one behaviour
InitBalance == 2         \* cents held by user 1 when the behaviour starts
MaxPriceMills == 20      \* largest request price, in mills

Sagas == 1..NumSagas
Deposits == 1..NumDeposits
Users == {1, 2}
NoAccount == -1          \* no row for the user in billing's table

\* ------------------------------------------------------- request inputs
\* X-Authenticated-User-ID header: absent, empty, not an integer, or an int.
Headers ==
    {[k |-> "none", v |-> 0], [k |-> "empty", v |-> 0], [k |-> "text", v |-> 0]}
    \cup {[k |-> "int", v |-> n] : n \in {-1, 0} \cup Users}

\* Request prices in mills: negative, zero, 0.004, 0.01 and the largest one.
PriceInputs == {-10, 0, 4, 10, MaxPriceMills}

\* A product name: its raw length and its content once stripped.
Names ==
    { [len |-> 0, text |-> ""], [len |-> 2, text |-> ""],
      [len |-> 3, text |-> "tea"], [len |-> 5, text |-> "tea"],
      [len |-> 256, text |-> "long"] }

\* ------------------------------------------------------- outcome sets
BalanceOutcomes == {"ok", "timeout", "unreachable", "status500", "malformed"}
NotifyOutcomes == {"delivered", "error", "timeout", "unreachable"}
\* A store call commits, or its commit raises and nothing is written.
StoreOutcomes == {"ok", "failed"}

\* ------------------------------------------------------- pure functions
\* Python's round(v, 2) of the double nearest to m/1000, in cents.  The
\* halves m % 10 = 5 go where the double lies: up for 0.005, 0.025, 0.035,
\* 0.055 and down for the others below 0.06.
HalfUp == {5, 25, 35, 55}
Round2(m) ==
    LET q == m \div 10
        r == m % 10
    IN  IF r > 5 \/ (r = 5 /\ m \in HalfUp) THEN q + 1 ELSE q

\* (mutant) the price check lets 0 through.
validate_price_nonneg(m) ==
    IF m < 0 THEN [ok |-> FALSE, v |-> 0] ELSE [ok |-> TRUE, v |-> Round2(m)]

\* OrderCreateRequest: Field(gt=0) and validate_price.
validate_price(m) ==
    IF m <= 0 THEN [ok |-> FALSE, v |-> 0] ELSE [ok |-> TRUE, v |-> Round2(m)]

\* OrderCreateRequest: Field(min_length=1, max_length=255) and
\* validate_product_name.
validate_product_name(n) ==
    IF n.len < 1 \/ n.len > 255 THEN [ok |-> FALSE, v |-> ""]
    ELSE IF n.text = "" THEN [ok |-> FALSE, v |-> ""]
    ELSE [ok |-> TRUE, v |-> n.text]

\* get_user_id: the dependency that reads the header.
get_user_id(h) ==
    IF h.k \in {"none", "empty"}
        THEN [ok |-> FALSE, code |-> 400,
              detail |-> <<"X-Authenticated-User-ID header is required">>]
    ELSE IF h.k = "text"
        THEN [ok |-> FALSE, code |-> 400,
              detail |-> <<"Invalid User ID format. Must be an integer">>]
    ELSE IF h.v <= 0
        THEN [ok |-> FALSE, code |-> 400,
              detail |-> <<"User ID must be greater than 0">>]
    ELSE [ok |-> TRUE, user_id |-> h.v]

\* The answer FastAPI gives before the endpoint body runs: the header
\* dependency's HTTPException, else 422 naming the body fields the schema
\* rejects, else nothing (code 0) and the endpoint runs.
BodyErrors(m, n) ==
    (IF validate_price(m).ok THEN {} ELSE {"price"})
    \cup (IF validate_product_name(n).ok THEN {} ELSE {"product_name"})

RequestRejection(h, m, n) ==
    IF ~get_user_id(h).ok
        THEN [code |-> get_user_id(h).code,
              body |-> [detail |-> get_user_id(h).detail, fields |-> {}]]
    ELSE IF BodyErrors(m, n) # {}
        THEN [code |-> 422,
              body |-> [detail |-> <<"validation error">>, fields |-> BodyErrors(m, n)]]
    ELSE [code |-> 0, body |-> [detail |-> <<>>, fields |-> {}]]

\* Responses: an error carries only a detail (a sequence of texts; fields
\* names what a 422 rejects), a success the OrderCreateResponse fields.
NoResponse == [code |-> 0, body |-> [detail |-> <<>>, fields |-> {}]]
ErrorResponse(c, d) == [code |-> c, body |-> [detail |-> d, fields |-> {}]]
OrderCreateResponse(o, row, uid, msg) ==
    [code |-> 201,
     body |-> [order_id |-> o, price |-> row.price,
               product_name |-> row.product_name, status |-> row.status,
               user_id |-> uid, message |-> msg]]

\* get_user_balance: the client's reading of the balance call's outcome;
\* err = 0 is a returned balance.
get_user_balance(outcome) ==
    CASE outcome = "ok" -> [err |-> 0, detail |-> ""]
      [] outcome \in {"timeout", "unreachable"} ->
            [err |-> 503, detail |-> "Failed to connect to billing service"]
      [] outcome = "status500" -> [err |-> 500, detail |-> "Billing service error"]
      [] OTHER -> [err |-> 500, detail |-> "Failed to get user balance"]

\* (mutant) every non-2xx status of billing is passed on as it came, the
\* way get_user_balance does.
withdraw_funds_raw(reply) ==
    CASE reply = "200" -> [err |-> 0, detail |-> ""]
      [] reply \in {"timeout", "unreachable"} ->
            [err |-> 503,
             detail |-> "Failed to process payment: billing service unavailable"]
      [] reply = "400" -> [err |-> 400, detail |-> "Insufficient funds or invalid amount"]
      [] reply = "404" -> [err |-> 404, detail |-> "User not found in billing system"]
      [] reply = "internal" ->
            [err |-> 500, detail |-> "Payment processing failed: internal error"]
      [] reply = "422" -> [err |-> 422, detail |-> "Payment processing failed: billing service error"]
      [] OTHER -> [err |-> 500, detail |-> "Payment processing failed: billing service error"]

\* (mutant) response.raise_for_status() is left out: every answer of
\* billing counts as a successful withdraw.
withdraw_funds_no_raise(reply) ==
    CASE reply \in {"timeout", "unreachable"} ->
            [err |-> 503,
             detail |-> "Failed to process payment: billing service unavailable"]
      [] reply = "internal" ->
            [err |-> 500, detail |-> "Payment processing failed: internal error"]
      [] OTHER -> [err |-> 0, detail |-> ""]

\* (mutant) a timeout of the withdraw call is reported as 504, the way the
\* gateway reports its own.
withdraw_funds_504(reply) ==
    CASE reply = "200" -> [err |-> 0, detail |-> ""]
      [] reply = "timeout" ->
            [err |-> 504,
             detail |-> "Failed to process payment: billing service unavailable"]
      [] reply = "unreachable" ->
            [err |-> 503,
             detail |-> "Failed to process payment: billing service unavailable"]
      [] reply = "400" -> [err |-> 400, detail |-> "Insufficient funds or invalid amount"]
      [] reply = "404" -> [err |-> 404, detail |-> "User not found in billing system"]
      [] reply = "internal" ->
            [err |-> 500, detail |-> "Payment processing failed: internal error"]
      [] OTHER -> [err |-> 502, detail |-> "Payment processing failed: billing service error"]

\* withdraw_funds: the client's reading of the withdraw call's outcome.
\* reply is billing's status code, or "timeout"/"unreachable"/"internal".
withdraw_funds(reply) ==
    CASE reply = "200" -> [err |-> 0, detail |-> ""]
      [] reply \in {"timeout", "unreachable"} ->
            [err |-> 503,
             detail |-> "Failed to process payment: billing service unavailable"]
      [] reply = "400" -> [err |-> 400, detail |-> "Insufficient funds or invalid amount"]
      [] reply = "404" -> [err |-> 404, detail |-> "User not found in billing system"]
      [] reply = "internal" ->
            [err |-> 500, detail |-> "Payment processing failed: internal error"]
      [] OTHER -> [err |-> 502, detail |-> "Payment processing failed: billing service error"]

\* (mutant) a timeout or connection failure leaves send_notification as an
\* HTTPException 503, the way the two billing clients raise it.
send_notification_raises(outcome) ==
    IF outcome \in {"timeout", "unreachable"}
    THEN [raised |-> 503, ret |-> FALSE]
    ELSE [raised |-> 0, ret |-> (outcome = "delivered")]

\* send_notification: returns True when delivered and False for every
\* failure; raised is the status of an HTTPException leaving it (none: 0).
send_notification(outcome) == [raised |-> 0, ret |-> (outcome = "delivered")]

\* ------------------------------------------------------------------ state
VARIABLES
    pc,            \* where each create_order_endpoint call stands
    user_id,       \* its caller id (0 before the call)
    price,         \* request.price after validate_price, in cents
    order,         \* id of the row it created (0: none)
    user_balance,  \* the balance snapshot it read (-1: none)
    branch,        \* "insufficient", "paid" or "payfail" once decided
    exc,           \* the HTTPException withdraw_funds raised
    resp,          \* the HTTP response it gave
    calls,         \* the store and remote calls it made, in order
    orders,        \* the orders table: row i has id i
    hist,          \* per row: the call that made it, its statuses oldest first
    accounts,      \* billing's table: user -> balance, or NoAccount
    bw,            \* billing's withdraw handler for each call's request
    bnew,          \* the balance that handler computed and will write
    wreply,        \* billing's reply to that request ("": none yet)
    gw,            \* what the gateway answered the caller of each call (0: nothing yet)
    listing,       \* the get_user_orders request made and its answer
    down,          \* the calls whose order-service process crashed under them
    dp             \* billing's deposit handler for each deposit request

vars == <<pc, user_id, price, order, user_balance, branch, exc, resp, calls,
          orders, hist, accounts, bw, bnew, wreply, gw, listing, down, dp>>

sagaVars == <<pc, user_id, price, order, user_balance, branch, exc, resp, calls>>
storeVars == <<orders, hist>>
billingVars == <<accounts, bw, bnew, wreply>>
edgeVars == <<gw, listing, down, dp>>

NoExc == [err |-> 0, detail |-> ""]
\* No deposit request has been made.
NoDeposit == [st |-> "none", to |-> 0, amount |-> 0, new |-> 0, reply |-> ""]
\* No get_user_orders request has been made.
NoListing == [code |-> 0, auth |-> 0, path |-> 0, ids |-> <<>>]

Init ==
    /\ pc = [s \in Sagas |-> "idle"]
    /\ user_id = [s \in Sagas |-> 0]
    /\ price = [s \in Sagas |-> 0]
    /\ order = [s \in Sagas |-> 0]
    /\ user_balance = [s \in Sagas |-> -1]
    /\ branch = [s \in Sagas |-> ""]
    /\ exc = [s \in Sagas |-> NoExc]
    /\ resp = [s \in Sagas |-> NoResponse]
    /\ calls = [s \in Sagas |-> <<>>]
    /\ orders = <<>>
    /\ hist = <<>>
    /\ accounts = [u \in Users |-> IF u = 1 THEN InitBalance ELSE NoAccount]
    /\ bw = [s \in Sagas |-> "none"]
    /\ bnew = [s \in Sagas |-> 0]
    /\ wreply = [s \in Sagas |-> ""]
    /\ gw = [s \in Sagas |-> 0]
    /\ listing = NoListing
    /\ down = {}
    /\ dp = [d \in Deposits |-> NoDeposit]

\* An entry of calls: the operation, the user it addresses, the amount or
\* price it carries, how it ended (res) and, for a notification, its text.
Call(op, u, amt, res, msg) ==
    [op |-> op, to |-> u, amount |-> amt, res |-> res, msg |-> msg]

\* calls[s] with the result of its last entry filled in.
Ended(s, res) == [calls EXCEPT ![s][Len(calls[s])].res = res]

\* Call s returns, or raises out of create_order_endpoint, with response r.
Finish(s, r) ==
    /\ pc' = [pc EXCEPT ![s] = "done"]
    /\ resp' = [resp EXCEPT ![s] = r]

\* ------------------------------------------------------------ order store
\* (mutant) the row is inserted for a fixed user id instead of the caller's.
create_order_fixed_owner(p, name, u) ==
    [price |-> p, product_name |-> name, status |-> "new", user_id |-> 1]

\* create_order: the row inserted with status new.
create_order(p, name, u) ==
    [price |-> p, product_name |-> name, status |-> "new", user_id |-> u]

\* (mutant) the update also writes the price column, from an Order object
\* that was built afresh with no price.
update_order_status_reprices(o, st) ==
    [orders EXCEPT ![o].status = st, ![o].price = 0]

\* (mutant) the UPDATE selects by the row's user_id instead of its id.
update_order_status_by_user(o, st) ==
    [i \in 1..Len(orders) |->
        IF orders[i].user_id = orders[o].user_id
        THEN [orders[i] EXCEPT !.status = st] ELSE orders[i]]

\* update_order_status: the table after the update of row o.
update_order_status(o, st) == [orders EXCEPT ![o].status = st]

\* ------------------------------------------------------------ saga steps
\* A request arrives.  An invalid one is answered by FastAPI before the
\* endpoint runs; a valid one runs step 1 (create_order), and an exception
\* of the store leaves through "except Exception" as a 500.
CreateOrder(s) ==
    /\ pc[s] = "idle"
    /\ IF s = 1 THEN TRUE ELSE pc[s - 1] # "idle"
    /\ \E h \in Headers, m \in PriceInputs, n \in Names, db \in StoreOutcomes :
         LET rej == RequestRejection(h, m, n)
             u == get_user_id(h).user_id
             p == validate_price(m).v
             name == validate_product_name(n).v
         IN  IF rej.code # 0
             THEN /\ db = "ok"
                  /\ Finish(s, rej)
                  /\ UNCHANGED <<user_id, price, order, calls, orders, hist>>
             ELSE /\ user_id' = [user_id EXCEPT ![s] = u]
                  /\ price' = [price EXCEPT ![s] = p]
                  /\ calls' = [calls EXCEPT ![s] = Append(@, Call("insert", u, p, db, ""))]
                  /\ IF db = "ok"
                     THEN /\ orders' = Append(orders, create_order(p, name, u))
                          /\ hist' = Append(hist, [by |-> s, st |-> <<"new">>])
                          /\ order' = [order EXCEPT ![s] = Len(orders) + 1]
                          /\ pc' = [pc EXCEPT ![s] = "balance"]
                          /\ resp' = resp
                     ELSE /\ Finish(s, ErrorResponse(500, <<"Failed to create order">>))
                          /\ UNCHANGED <<order, orders, hist>>
    /\ UNCHANGED <<user_balance, branch, exc, billingVars, edgeVars>>

\* Step 2: get_user_balance.  Billing's get_balance creates the account
\* with balance 0 when it handles the request; a timed-out request may or
\* may not have been handled.  A failed read leaves through the outer
\* "except HTTPException: raise".
GetUserBalance(s) ==
    /\ pc[s] = "balance"
    /\ \E outcome \in BalanceOutcomes, handled \in BOOLEAN :
         LET u == user_id[s]
             r == get_user_balance(outcome)
             created == [accounts EXCEPT ![u] = IF @ = NoAccount THEN 0 ELSE @]
         IN  /\ (~handled) => (outcome = "timeout")
             /\ accounts' = IF outcome \in {"unreachable", "status500"} \/ ~handled
                            THEN accounts ELSE created
             /\ calls' = [calls EXCEPT ![s] = Append(@, Call("balance", u, 0, outcome, ""))]
             /\ IF r.err = 0
                THEN /\ user_balance' = [user_balance EXCEPT ![s] = created[u]]
                     /\ pc' = [pc EXCEPT ![s] = "decide"]
                     /\ resp' = resp
                ELSE /\ Finish(s, ErrorResponse(r.err, <<r.detail>>))
                     /\ UNCHANGED user_balance
    /\ UNCHANGED <<user_id, price, order, branch, exc, storeVars, bw, bnew, wreply,
                   edgeVars>>

\* (mutant) the comparison of line 321 turned round.
Insufficient_reversed(p, bal) == p < bal

\* Line 321: the price is not covered by the snapshot.
Insufficient(p, bal) == p > bal

\* Step 3 and the start of step 4: compare the price with the snapshot;
\* when it is covered, call withdraw_funds, whose request reaches billing
\* or fails on the way out.
Decide(s) ==
    /\ pc[s] = "decide"
    /\ IF Insufficient(price[s], user_balance[s])
       THEN /\ branch' = [branch EXCEPT ![s] = "insufficient"]
            /\ pc' = [pc EXCEPT ![s] = "finalize"]
            /\ UNCHANGED <<exc, calls, bw>>
       ELSE \E sent \in {"sent", "unreachable", "internal"} :
              IF sent = "sent"
              THEN /\ calls' = [calls EXCEPT ![s] =
                          Append(@, Call("withdraw", user_id[s], price[s], "", ""))]
                   /\ bw' = [bw EXCEPT ![s] = "pending"]
                   /\ pc' = [pc EXCEPT ![s] = "withdraw"]
                   /\ UNCHANGED <<branch, exc>>
              ELSE /\ calls' = [calls EXCEPT ![s] =
                          Append(@, Call("withdraw", user_id[s], price[s], sent, ""))]
                   /\ branch' = [branch EXCEPT ![s] = "payfail"]
                   /\ exc' = [exc EXCEPT ![s] = withdraw_funds(sent)]
                   /\ pc' = [pc EXCEPT ![s] = "finalize"]
                   /\ bw' = bw
    /\ UNCHANGED <<user_id, price, order, user_balance, resp, storeVars,
                   accounts, bnew, wreply, edgeVars>>

\* (mutant) create_order_endpoint goes on to the status update without
\* waiting for withdraw_funds to return, taking the debit for done.
WithdrawReturn_unawaited(s) ==
    /\ pc[s] = "withdraw"
    /\ branch' = [branch EXCEPT ![s] = "paid"]
    /\ pc' = [pc EXCEPT ![s] = "finalize"]
    /\ UNCHANGED <<user_id, price, order, user_balance, exc, resp, calls, storeVars,
                   billingVars, edgeVars>>

\* withdraw_funds gets billing's reply.
WithdrawReturn(s) ==
    /\ pc[s] = "withdraw"
    /\ wreply[s] # ""
    /\ LET r == withdraw_funds(wreply[s])
       IN  /\ branch' = [branch EXCEPT ![s] = IF r.err = 0 THEN "paid" ELSE "payfail"]
           /\ exc' = [exc EXCEPT ![s] = r]
    /\ calls' = Ended(s, wreply[s])
    /\ pc' = [pc EXCEPT ![s] = "finalize"]
    /\ UNCHANGED <<user_id, price, order, user_balance, resp, storeVars,
                   billingVars, edgeVars>>

\* (mutant) a timed-out withdraw is sent once more.
WithdrawTimeout_retries(s) ==
    /\ pc[s] = "withdraw"
    /\ IF Len(calls[s]) < 4
       THEN /\ calls' = [calls EXCEPT ![s] =
                   Append(Ended(s, "timeout")[s],
                          Call("withdraw", user_id[s], price[s], "", ""))]
            /\ UNCHANGED <<branch, exc, pc>>
       ELSE /\ branch' = [branch EXCEPT ![s] = "payfail"]
            /\ exc' = [exc EXCEPT ![s] = withdraw_funds("timeout")]
            /\ calls' = Ended(s, "timeout")
            /\ pc' = [pc EXCEPT ![s] = "finalize"]
    /\ UNCHANGED <<user_id, price, order, user_balance, resp, storeVars,
                   billingVars, edgeVars>>

\* (mutant) the client has no timeout: it waits for billing's reply.
WithdrawTimeout_never(s) ==
    /\ FALSE
    /\ UNCHANGED vars

\* withdraw_funds stops waiting after its 10 s timeout, whatever billing
\* has done with the request by then.
WithdrawTimeout(s) ==
    /\ pc[s] = "withdraw"
    /\ branch' = [branch EXCEPT ![s] = "payfail"]
    /\ exc' = [exc EXCEPT ![s] = withdraw_funds("timeout")]
    /\ calls' = Ended(s, "timeout")
    /\ pc' = [pc EXCEPT ![s] = "finalize"]
    /\ UNCHANGED <<user_id, price, order, user_balance, resp, storeVars,
                   billingVars, edgeVars>>

\* (mutant) every path hands paid to update_order_status.
FinalStatus_paid(b) == "paid"

\* The status each path hands to update_order_status (lines 323, 344, 361).
FinalStatus(b) == IF b = "paid" THEN "paid" ELSE "cancelled"

\* Step 5 (and its counterparts on the two cancelling paths): the call of
\* update_order_status.  A missing row is a ValueError (400); an exception
\* of the store is a 500; both leave through the outer handlers without a
\* notification.
Finalize(s) ==
    /\ pc[s] = "finalize"
    /\ LET st == FinalStatus(branch[s])
           o == order[s]
       IN  IF o \notin 1..Len(orders)
           THEN /\ Finish(s, ErrorResponse(400, <<"Order not found">>))
                /\ UNCHANGED <<storeVars, calls>>
           ELSE \E db \in StoreOutcomes :
                  /\ calls' = [calls EXCEPT ![s] =
                        Append(@, Call("update", user_id[s], 0, db, st))]
                  /\ IF db = "ok"
                     THEN /\ orders' = update_order_status(o, st)
                          /\ hist' = [hist EXCEPT ![o].st = Append(@, st)]
                          /\ pc' = [pc EXCEPT ![s] = "notify"]
                          /\ resp' = resp
                     ELSE /\ Finish(s, ErrorResponse(500, <<"Failed to create order">>))
                          /\ UNCHANGED storeVars
    /\ UNCHANGED <<user_id, price, order, user_balance, branch, exc, billingVars,
                   edgeVars>>

\* (mutant) the payment confirmation is sent on every path.
NotificationMessage_paid(s) == "paid successfully"

\* The message create_order_endpoint sends on each path.
NotificationMessage(s) ==
    CASE branch[s] = "insufficient" -> "cancelled, insufficient funds"
      [] branch[s] = "paid" -> "paid successfully"
      [] OTHER -> "cancelled due to payment processing error"

\* (mutant) the paid response states the balance snapshot as the amount.
PaidMessage_balance(row, bal) ==
    [text |-> "Order created and paid successfully; deducted", amount |-> bal]

\* The message of the paid response (line 356): the row's price.
PaidMessage(row, bal) ==
    [text |-> "Order created and paid successfully; deducted", amount |-> row.price]

\* (mutant) the insufficient-funds response tells whether the notification
\* went out.
SagaResponse_tells_notification(s, sent) ==
    LET o == order[s]
        row == orders[o]
    IN  CASE branch[s] = "insufficient" ->
              OrderCreateResponse(o, row, user_id[s],
                  [text |-> IF sent THEN "Order cancelled due to insufficient funds"
                            ELSE "Order cancelled due to insufficient funds, not notified",
                   amount |-> 0])
          [] branch[s] = "paid" ->
              OrderCreateResponse(o, row, user_id[s], PaidMessage(row, user_balance[s]))
          [] OTHER ->
              ErrorResponse(exc[s].err, <<"Order created but payment failed", exc[s].detail>>)

\* (mutant) insufficient funds is answered as an error, 400.
SagaResponse_insufficient_400(s, sent) ==
    LET o == order[s]
        row == orders[o]
    IN  CASE branch[s] = "insufficient" ->
              ErrorResponse(400, <<"Order cancelled due to insufficient funds">>)
          [] branch[s] = "paid" ->
              OrderCreateResponse(o, row, user_id[s], PaidMessage(row, user_balance[s]))
          [] OTHER ->
              ErrorResponse(exc[s].err, <<"Order created but payment failed", exc[s].detail>>)

\* What create_order_endpoint answers once send_notification has returned
\* without raising; sent is the value it returned, which the code drops.
SagaResponse(s, sent) ==
    LET o == order[s]
        row == orders[o]
    IN  CASE branch[s] = "insufficient" ->
              OrderCreateResponse(o, row, user_id[s],
                  [text |-> "Order cancelled due to insufficient funds", amount |-> 0])
          [] branch[s] = "paid" ->
              OrderCreateResponse(o, row, user_id[s], PaidMessage(row, user_balance[s]))
          [] OTHER ->
              ErrorResponse(exc[s].err, <<"Order created but payment failed", exc[s].detail>>)

\* Where a call stands after send_notification ended with outcome.  Were an
\* HTTPException to leave send_notification, the paid path's
\* "except HTTPException" (line 359) would take it for a withdraw failure
\* and the other two paths would re-raise it (line 372).
NotifyEffect(s, outcome) ==
    LET n == send_notification(outcome)
    IN  IF n.raised = 0
        THEN [pc |-> "done", resp |-> SagaResponse(s, n.ret),
              branch |-> branch[s], exc |-> exc[s]]
        ELSE IF branch[s] = "paid"
        THEN [pc |-> "finalize", resp |-> resp[s], branch |-> "payfail",
              exc |-> [err |-> n.raised, detail |-> "notification"]]
        ELSE [pc |-> "done", resp |-> ErrorResponse(n.raised, <<"notification">>),
              branch |-> branch[s], exc |-> exc[s]]

\* Step 6 and the return: send_notification, then the response.
Notify(s) ==
    /\ pc[s] = "notify"
    /\ \E outcome \in NotifyOutcomes :
         LET e == NotifyEffect(s, outcome)
         IN  /\ calls' = [calls EXCEPT ![s] =
                    Append(@, Call("notify", user_id[s],
                                   IF branch[s] = "paid" THEN orders[order[s]].price ELSE 0,
                                   IF outcome = "delivered" THEN "delivered" ELSE "failed",
                                   NotificationMessage(s)))]
             /\ pc' = [pc EXCEPT ![s] = e.pc]
             /\ resp' = [resp EXCEPT ![s] = e.resp]
             /\ branch' = [branch EXCEPT ![s] = e.branch]
             /\ exc' = [exc EXCEPT ![s] = e.exc]
    /\ UNCHANGED <<user_id, price, order, user_balance, storeVars, billingVars,
                   edgeVars>>

\* ---------------------------------------------------------------- billing
\* (mutant) any amount passes billing's schema.
validate_amount_any(a) == TRUE

\* BalanceOperation: Field(gt=0) and validate_amount, for the body of a
\* deposit and of a withdraw.
validate_amount(a) == a > 0

\* withdraw_from_account up to the balance check: the schema rejects an
\* amount that is not > 0 (422), an unknown account is 404, a balance
\* below the amount is 400, the database may fail (500); otherwise the
\* handler holds balance - amount, to be written by its commit.
BillingWithdrawLoad(s) ==
    /\ bw[s] = "pending"
    /\ LET u == user_id[s]
           amt == price[s]
       IN  \E fault \in BOOLEAN :
             LET code == IF ~validate_amount(amt) THEN "422"
                         ELSE IF fault THEN "500"
                         ELSE IF accounts[u] = NoAccount THEN "404"
                         ELSE IF accounts[u] < amt THEN "400"
                         ELSE ""
             IN  IF code # ""
                 THEN /\ wreply' = [wreply EXCEPT ![s] = code]
                      /\ bw' = [bw EXCEPT ![s] = "finished"]
                      /\ bnew' = bnew
                 ELSE /\ bnew' = [bnew EXCEPT ![s] = accounts[u] - amt]
                      /\ bw' = [bw EXCEPT ![s] = "loaded"]
                      /\ wreply' = wreply
    /\ UNCHANGED <<sagaVars, storeVars, accounts, edgeVars>>

\* (mutant) the UPDATE subtracts the amount from the balance stored at
\* commit time, without checking it again.
BillingWithdrawCommit_relative(s) ==
    /\ bw[s] = "loaded"
    /\ accounts' = [accounts EXCEPT ![user_id[s]] = @ - price[s]]
    /\ bw' = [bw EXCEPT ![s] = "finished"]
    /\ wreply' = [wreply EXCEPT ![s] = "200"]
    /\ UNCHANGED <<sagaVars, storeVars, bnew, edgeVars>>

\* withdraw_from_account's db.commit(): the UPDATE writes the balance the
\* handler computed, and the handler answers 200.
BillingWithdrawCommit(s) ==
    /\ bw[s] = "loaded"
    /\ accounts' = [accounts EXCEPT ![user_id[s]] = bnew[s]]
    /\ bw' = [bw EXCEPT ![s] = "finished"]
    /\ wreply' = [wreply EXCEPT ![s] = "200"]
    /\ UNCHANGED <<sagaVars, storeVars, bnew, edgeVars>>

Next ==
    \E s \in Sagas :
        \/ CreateOrder(s)
        \/ GetUserBalance(s)
        \/ Decide(s)
        \/ WithdrawReturn(s)
        \/ WithdrawTimeout(s)
        \/ Finalize(s)
        \/ Notify(s)
        \/ BillingWithdrawLoad(s)
        \/ BillingWithdrawCommit(s)

Spec == Init /\ [][Next]_vars

\* A step of create_order_endpoint in call s.
SagaStep(s) ==
    \/ GetUserBalance(s) \/ Decide(s) \/ WithdrawReturn(s) \/ WithdrawTimeout(s)
    \/ Finalize(s) \/ Notify(s)

\* The event loop runs a call that can go on: a store call returns or
\* raises, and each remote call is awaited under a 10 s timeout.  Nothing
\* is assumed of billing's handlers or of the arrival of requests.
SpecLive == Spec /\ \A s \in Sagas : WF_vars(SagaStep(s))

\* ------------------------------------------------------------ order list
\* GET /api/v1/orders/{requested_user_id}: the headers, path ids and
\* pagination values tried.
ListHeaders == {h \in Headers : h.k = "none" \/ (h.k = "int" /\ h.v >= 0)}
PathIds == {0} \cup Users
Skips == {0, 1}
Limits == {1, 100}

\* The ids of u's rows, newest first (created_at grows with the id), after
\* offset(skip) and limit(limit).
OrdersPage(u, skip, limit) ==
    LET newest == [i \in 1..Len(orders) |-> Len(orders) + 1 - i]
        mine == SelectSeq(newest, LAMBDA o : orders[o].user_id = u)
        last == IF skip + limit < Len(mine) THEN skip + limit ELSE Len(mine)
    IN  SubSeq(mine, skip + 1, last)

\* (mutant) the comparison of the path id with the caller id is left out.
get_user_orders_unchecked(h, path, skip, limit, db) ==
    IF ~get_user_id(h).ok THEN [code |-> get_user_id(h).code, ids |-> <<>>]
    ELSE IF path <= 0 THEN [code |-> 400, ids |-> <<>>]
    ELSE IF db # "ok" THEN [code |-> 500, ids |-> <<>>]
    ELSE [code |-> 200, ids |-> OrdersPage(path, skip, limit)]

\* get_user_orders: the header dependency first, then the path id, then
\* the ownership check, then the query (whose failure is a 500).
get_user_orders(h, path, skip, limit, db) ==
    IF ~get_user_id(h).ok THEN [code |-> get_user_id(h).code, ids |-> <<>>]
    ELSE IF path <= 0 THEN [code |-> 400, ids |-> <<>>]
    ELSE IF path # get_user_id(h).user_id THEN [code |-> 403, ids |-> <<>>]
    ELSE IF db # "ok" THEN [code |-> 500, ids |-> <<>>]
    ELSE [code |-> 200, ids |-> OrdersPage(path, skip, limit)]

\* One get_user_orders request is made and answered; listing keeps the
\* header's id (-1 for an absent header), the path id and the answer.
GetUserOrders ==
    /\ listing = NoListing
    /\ \E h \in ListHeaders, path \in PathIds, skip \in Skips, limit \in Limits,
          db \in StoreOutcomes :
         LET r == get_user_orders(h, path, skip, limit, db)
         IN  listing' = [code |-> r.code, auth |-> IF h.k = "int" THEN h.v ELSE -1,
                         path |-> path, ids |-> r.ids]
    /\ UNCHANGED <<sagaVars, storeVars, billingVars, gw, down, dp>>

NextOrders == Next \/ GetUserOrders

SpecOrders == Init /\ [][NextOrders]_vars

\* ---------------------------------------------------------------- deposit
\* Amounts of the deposit requests tried, in cents.
DepositAmounts == {-1, 0, 1}

\* deposit_to_account up to its commit: the schema rejects an amount that
\* is not > 0 (422), the database may fail (500); otherwise
\* get_or_create_user_account creates and commits a missing account with
\* balance 0, and the handler holds balance + amount, to be written by its
\* commit.
BillingDepositLoad(d) ==
    /\ dp[d].st = "none"
    /\ IF d = 1 THEN TRUE ELSE dp[d - 1].st # "none"
    /\ \E u \in Users, a \in DepositAmounts, fault \in BOOLEAN :
         LET created == [accounts EXCEPT ![u] = IF @ = NoAccount THEN 0 ELSE @]
             code == IF ~validate_amount(a) THEN "422"
                     ELSE IF fault THEN "500"
                     ELSE ""
         IN  /\ validate_amount(a) \/ ~fault
             /\ IF code # ""
                THEN /\ dp' = [dp EXCEPT ![d] =
                            [st |-> "finished", to |-> u, amount |-> a, new |-> 0,
                             reply |-> code]]
                     /\ accounts' = accounts
                ELSE /\ dp' = [dp EXCEPT ![d] =
                            [st |-> "loaded", to |-> u, amount |-> a,
                             new |-> created[u] + a, reply |-> ""]]
                     /\ accounts' = created
    /\ UNCHANGED <<sagaVars, storeVars, bw, bnew, wreply, gw, listing, down>>

\* deposit_to_account's db.commit(): the UPDATE writes the balance the
\* handler computed, and the handler answers 200.
BillingDepositCommit(d) ==
    /\ dp[d].st = "loaded"
    /\ accounts' = [accounts EXCEPT ![dp[d].to] = dp[d].new]
    /\ dp' = [dp EXCEPT ![d].st = "finished", ![d].reply = "200"]
    /\ UNCHANGED <<sagaVars, storeVars, bw, bnew, wreply, gw, listing, down>>

NextBilling ==
    Next \/ \E d \in Deposits : BillingDepositLoad(d) \/ BillingDepositCommit(d)

SpecBilling == Init /\ [][NextBilling]_vars

\* ---------------------------------------------------------------- gateway
\* The gateway's proxy of POST /order/create, once its request has reached
\* the order service: client.post(..., timeout=10.0) gives up with
\* TimeoutException (504) or another RequestError (502) while the order
\* service is still handling the request, or gets the response and relays
\* it.  Giving up closes the gateway's connection and nothing else.

\* (mutant) the order service drops the request its caller gave up on.
GatewayAbandons_cancels(s) == [pc EXCEPT ![s] = "done"]

\* What the gateway's giving up does to the calls in the order service.
GatewayAbandons(s) == pc

GatewayGivesUp(s) ==
    /\ gw[s] = 0
    /\ pc[s] \notin {"idle", "done"}
    /\ \E code \in {504, 502} : gw' = [gw EXCEPT ![s] = code]
    /\ pc' = GatewayAbandons(s)
    /\ UNCHANGED <<user_id, price, order, user_balance, branch, exc, resp, calls,
                   storeVars, billingVars, listing, down, dp>>

\* The response arrives in time: a status of 400 or more is raised again
\* as an HTTPException of that status, anything else is returned as JSON
\* by a route that declares no status code (200).
GatewayRelay(s) ==
    /\ gw[s] = 0
    /\ pc[s] = "done"
    /\ gw' = [gw EXCEPT ![s] = IF resp[s].code >= 400 THEN resp[s].code ELSE 200]
    /\ UNCHANGED <<sagaVars, storeVars, billingVars, listing, down, dp>>

NextGateway == Next \/ \E s \in Sagas : GatewayGivesUp(s) \/ GatewayRelay(s)

SpecGateway == Init /\ [][NextGateway]_vars

\* ------------------------------------------------------------------ crash
\* (mutant) a restarted order service resumes the call where it stood.
CrashedPc_resumed(s) == pc[s]

\* Where a call stands once its process has died: nowhere.  The order
\* service keeps no record of a call in progress and runs nothing at
\* start-up that looks at orders left in new.
CrashedPc(s) == "crashed"

\* The order-service process dies while it handles call s, between two
\* steps of create_order_endpoint; what the steps before it committed or
\* sent stays, and billing goes on with a request it has received.
Crash(s) ==
    /\ pc[s] \notin {"idle", "done", "crashed"}
    /\ down' = down \cup {s}
    /\ pc' = [pc EXCEPT ![s] = CrashedPc(s)]
    /\ UNCHANGED <<user_id, price, order, user_balance, branch, exc, resp, calls,
                   storeVars, billingVars, gw, listing, dp>>

NextCrash == Next \/ \E s \in Sagas : Crash(s)

SpecCrash == Init /\ [][NextCrash]_vars

\* ------------------------------------------------------- reading a state
Terminal == {"paid", "cancelled"}
Done(s) == pc[s] = "done"
\* The request of call s passed validation (its caller id was bound).
Valid(s) == user_id[s] > 0
\* The rows call s inserted.
RowsBy(s) == {o \in 1..Len(hist) : hist[o].by = s}
\* The positions in calls[s] of the calls of one operation.
CallsOf(s, op) == {i \in 1..Len(calls[s]) : calls[s][i].op = op}
BalanceFailed(s) == \E i \in CallsOf(s, "balance") : calls[s][i].res # "ok"
WithdrawOk(s) == \E i \in CallsOf(s, "withdraw") : calls[s][i].res = "200"
WithdrawFailed(s) == \E i \in CallsOf(s, "withdraw") : calls[s][i].res \notin {"", "200"}
\* update_order_status returned to call s without raising.
Updated(s) == \E i \in CallsOf(s, "update") : calls[s][i].res = "ok"
\* create_order, or update_order_status, raised in call s.
InsertFailed(s) == \E i \in CallsOf(s, "insert") : calls[s][i].res # "ok"
UpdateFailed(s) == \E i \in CallsOf(s, "update") : calls[s][i].res # "ok"
IsSuccess(r) == r.code = 201 /\ "order_id" \in DOMAIN r.body
AllDone == \A s \in Sagas : Done(s)

\* ---------------------------------------------------------------- claims
\* C1: for every valid request and every outcome of the remote calls and
\* of the store, a returned create_order_endpoint that persisted a row has
\* created exactly one, and that row is paid or cancelled, never new.
C1_ReturnedOrderTerminal ==
    \A s \in Sagas :
        (Done(s) /\ Valid(s) /\ RowsBy(s) # {}) =>
            /\ Cardinality(RowsBy(s)) = 1
            /\ \A o \in RowsBy(s) : orders[o].status \in Terminal

\* C2: when the balance read fails after the row was persisted, the order
\* ends cancelled, one notification was attempted, and the caller gets the
\* balance read's error, 503 for a timeout or an unreachable billing.
C2_BalanceFailureCancels ==
    \A s \in Sagas :
        (Done(s) /\ order[s] # 0 /\ BalanceFailed(s)) =>
            /\ orders[order[s]].status = "cancelled"
            /\ Cardinality(CallsOf(s, "notify")) = 1
            /\ resp[s].code >= 400
            /\ \A i \in CallsOf(s, "balance") :
                 calls[s][i].res \in {"timeout", "unreachable"} => resp[s].code = 503

\* What C3 promises of a call: order paid, 201 with status paid, and a
\* message whose amount is the order's price.
PaidOutcome(s) ==
    /\ orders[order[s]].status = "paid"
    /\ IsSuccess(resp[s])
    /\ resp[s].body.order_id = order[s]
    /\ resp[s].body.status = "paid"
    /\ resp[s].body.message.text = "Order created and paid successfully; deducted"
    /\ resp[s].body.message.amount = orders[order[s]].price
    /\ resp[s].body.price = price[s]

InsufficientOutcome(s) ==
    /\ orders[order[s]].status = "cancelled"
    /\ IsSuccess(resp[s])
    /\ resp[s].body.order_id = order[s]
    /\ resp[s].body.status = "cancelled"
    /\ resp[s].body.message.text = "Order cancelled due to insufficient funds"

\* A call whose snapshot is below its price.
Short(s) == user_balance[s] # -1 /\ price[s] > user_balance[s]

DebitFailureCode(res) ==
    CASE res = "400" -> 400
      [] res = "404" -> 404
      [] res \in {"timeout", "unreachable"} -> 503
      [] res = "internal" -> 500
      [] OTHER -> 502

\* What C5 promises of a call: order cancelled, one notification, of the
\* cancellation, and an error response with the debit failure's status
\* saying the order was created but payment failed.
PayFailOutcome(s) ==
    /\ orders[order[s]].status = "cancelled"
    /\ Cardinality(CallsOf(s, "notify")) = 1
    /\ \A i \in CallsOf(s, "notify") :
         calls[s][i].msg = "cancelled due to payment processing error"
    /\ \A i \in CallsOf(s, "withdraw") : resp[s].code = DebitFailureCode(calls[s][i].res)
    /\ resp[s].body.detail # <<>>
    /\ Head(resp[s].body.detail) = "Order created but payment failed"

C6_NotificationNonInterference ==
    [][\A s \in Sagas :
          (pc[s] = "notify" /\ pc'[s] # "notify") =>
              /\ orders' = orders
              /\ \A outcome \in NotifyOutcomes :
                    /\ pc'[s] = NotifyEffect(s, outcome).pc
                    /\ pc'[s] = "done"
                    /\ resp'[s] = NotifyEffect(s, outcome).resp]_vars

\* C6's case: a call answered 201 although its notification failed.
C6_Witness ==
    \E s \in Sagas :
        /\ Done(s) /\ resp[s].code = 201
        /\ \E i \in CallsOf(s, "notify") : calls[s][i].res = "failed"

\* C7: every order's statuses are new alone, or new then paid, or new
\* then cancelled, and the row shows the last of them.
C7_SingleTransition ==
    \A o \in 1..Len(orders) :
        /\ hist[o].st \in {<<"new">>, <<"new", "paid">>, <<"new", "cancelled">>}
        /\ orders[o].status = hist[o].st[Len(hist[o].st)]

\* C7's case: every call has returned, one order is paid and another is
\* cancelled.
C7_Witness ==
    /\ AllDone
    /\ \E o1, o2 \in 1..Len(orders) :
         hist[o1].st = <<"new", "paid">> /\ hist[o2].st = <<"new", "cancelled">>

\* The requests C8 calls invalid.
InvalidRequest(h, m, n) ==
    \/ h.k # "int"
    \/ h.v <= 0
    \/ m <= 0
    \/ n.len = 0
    \/ n.text = ""
    \/ n.len > 255

\* C8: every invalid request is rejected with a 4xx status, and a call
\* that was rejected has no row and issued no remote call.
C8_InvalidRequestRejected ==
    /\ \A h \in Headers, m \in PriceInputs, n \in Names :
         InvalidRequest(h, m, n) => RequestRejection(h, m, n).code \in 400..499
    /\ \A s \in Sagas :
         (Done(s) /\ ~Valid(s)) =>
            /\ resp[s].code \in 400..499
            /\ order[s] = 0
            /\ RowsBy(s) = {}
            /\ calls[s] = <<>>
    /\ \A o \in 1..Len(orders) :
         /\ orders[o].user_id > 0
         /\ orders[o].product_name # ""
         /\ \E m \in PriceInputs : m > 0 /\ orders[o].price = Round2(m)

\* C8's case: a request with a good header and a bad price was answered
\* 422 while another call's order exists.
C8_Witness ==
    \E s \in Sagas :
        /\ Done(s) /\ ~Valid(s) /\ resp[s].code = 422
        /\ resp[s].body.fields = {"price"}
        /\ Len(orders) > 0

\* C9: a response given after the row was persisted names that order and
\* its terminal status.
C9_ResponseNamesOrder ==
    \A s \in Sagas :
        (Done(s) /\ order[s] # 0) =>
            /\ "order_id" \in DOMAIN resp[s].body
            /\ resp[s].body.order_id = order[s]
            /\ resp[s].body.status \in Terminal

\* A call that ran to its return statement: paid, or cancelled for
\* insufficient funds.
Completed(s) == Done(s) /\ Updated(s) /\ branch[s] \in {"insufficient", "paid"}

\* C10 as stated: 201 for every completed outcome, and an error status
\* only when no row exists or the withdraw call failed.
C10_Original ==
    \A s \in Sagas :
        /\ Completed(s) => resp[s].code = 201
        /\ (Done(s) /\ resp[s].code >= 400) => (RowsBy(s) = {} \/ WithdrawFailed(s))

\* C10 as amended: 201 for every completed outcome, and an error status
\* only when the request was invalid, create_order raised, the balance
\* read failed, the withdraw call failed, or update_order_status raised.
C10_ErrorStatusOnlyOnFailure ==
    \A s \in Sagas :
        /\ Completed(s) => resp[s].code = 201
        /\ Done(s) => resp[s].code = 201 \/ resp[s].code >= 400
        /\ (Done(s) /\ resp[s].code >= 400) =>
              (~Valid(s) \/ InsertFailed(s) \/ BalanceFailed(s) \/ WithdrawFailed(s)
                 \/ UpdateFailed(s))

\* C10's case: one call answered 201 with a cancelled order and another
\* answered with an error after its withdraw failed.
C10_Witness ==
    \E s, t \in Sagas :
        /\ Completed(s) /\ branch[s] = "insufficient" /\ resp[s].code = 201
        /\ Done(t) /\ WithdrawFailed(t) /\ resp[t].code >= 400

\* C11: every persisted order has a price above zero, and so has every
\* amount a withdraw call carries.
C11_PersistedPricePositive ==
    /\ \A o \in 1..Len(orders) : orders[o].price > 0
    /\ \A s \in Sagas : \A i \in CallsOf(s, "withdraw") : calls[s][i].amount > 0

\* What C12 says of the answer to a get_user_orders request: orders come
\* back only to a caller whose header id is the path id, and they are that
\* caller's own.
ListingOwnOnly ==
    /\ listing.code # 200 => listing.ids = <<>>
    /\ listing.code = 200 => listing.auth = listing.path
    /\ \A i \in 1..Len(listing.ids) :
         /\ listing.ids[i] \in 1..Len(orders)
         /\ orders[listing.ids[i]].user_id = listing.auth

\* C12 as stated: a header id that differs from the path id is answered
\* 403, and the list returned holds only the caller's orders.
C12_Original ==
    /\ (listing.code # 0 /\ listing.auth # listing.path) => listing.code = 403
    /\ ListingOwnOnly

\* C12 as amended: a header id that differs from the path id is answered
\* 403 when both are valid ids, and 400 when the header is absent or
\* either id is not above zero; the list returned holds only the caller's
\* orders.
C12_OwnOrdersOnly ==
    /\ (listing.code # 0 /\ listing.auth # listing.path) =>
          listing.code = (IF listing.auth > 0 /\ listing.path > 0 THEN 403 ELSE 400)
    /\ ListingOwnOnly

\* C12's case: orders of both users exist, one caller was given their own
\* order.
C12_Witness ==
    /\ listing.code = 200 /\ listing.ids # <<>>
    /\ \E o \in 1..Len(orders) : orders[o].user_id # listing.auth

\* The status C13 names for each answer of billing: 503 for a timeout or
\* a connection failure, 400 and 404 as they come on withdraw, 502 for any
\* other non-2xx answer.
MappedStatus(op, res) ==
    CASE res \in {"timeout", "unreachable"} -> 503
      [] op = "withdraw" /\ res = "400" -> 400
      [] op = "withdraw" /\ res = "404" -> 404
      [] res \in {"ok", "200"} -> 0
      [] OTHER -> 502

\* C13: the balance read's failure reaches the caller, and the withdraw's
\* failure reaches create_order_endpoint, with the status named for
\* billing's answer; answers that are no HTTP response of billing (a
\* malformed body, an exception inside the client) are left aside.
C13_ClientMapsOutcomes ==
    \A s \in Sagas :
        /\ \A i \in CallsOf(s, "balance") :
              (Done(s) /\ calls[s][i].res \in {"timeout", "unreachable", "status500"})
                  => resp[s].code = MappedStatus("balance", calls[s][i].res)
        /\ \A i \in CallsOf(s, "withdraw") :
              calls[s][i].res \notin {"", "internal"}
                  => exc[s].err = MappedStatus("withdraw", calls[s][i].res)

\* C14: a step of billing's withdraw handler for a positive amount.  An
\* answer 200 comes with the balance lowered by the amount from a balance
\* that covered it; 400 comes for an existing account below the amount and
\* 404 for no account, both with the table unchanged; and a handler that
\* finds the amount covered goes on to write unless the database fails.
C14_WithdrawContract ==
    [][\A s \in Sagas :
          LET u == user_id[s]
              amt == price[s]
              answers(code) == wreply[s] = "" /\ wreply'[s] = code
          IN  amt > 0 =>
                /\ answers("200") =>
                      /\ accounts[u] # NoAccount /\ accounts[u] >= amt
                      /\ accounts'[u] = accounts[u] - amt
                /\ answers("400") =>
                      /\ accounts[u] # NoAccount /\ accounts[u] < amt
                      /\ accounts' = accounts
                /\ answers("404") => (accounts[u] = NoAccount /\ accounts' = accounts)
                /\ (bw[s] = "pending" /\ bw'[s] # "pending" /\ wreply'[s] # "500"
                      /\ accounts[u] # NoAccount /\ accounts[u] >= amt)
                      => bw'[s] = "loaded"]_vars

\* The operations of the calls a saga has made, oldest first.
OpsOf(s) == [i \in 1..Len(calls[s]) |-> calls[s][i].op]
\* seq is the beginning of full.
IsPrefix(seq, full) == Len(seq) <= Len(full) /\ seq = SubSeq(full, 1, Len(seq))

\* C15: the calls of a saga come in the order insert, balance read,
\* withdraw (left out when the Decide step chose to cancel), status
\* update, notification; each is made only after the one before it has
\* ended, the balance read after a committed insert, the withdraw after a
\* returned balance, the update after the withdraw ended or on a price
\* above the snapshot, the notification after a committed update.
C15_StepOrder ==
    \A s \in Sagas :
        /\ \/ IsPrefix(OpsOf(s), <<"insert", "balance", "withdraw", "update", "notify">>)
           \/ IsPrefix(OpsOf(s), <<"insert", "balance", "update", "notify">>)
        /\ \A i \in 1..Len(calls[s]) :
              /\ i < Len(calls[s]) => calls[s][i].res # ""
              /\ (i > 1 /\ calls[s][i].op = "balance") => calls[s][i - 1].res = "ok"
              /\ (i > 1 /\ calls[s][i].op = "withdraw") =>
                    (calls[s][i - 1].res = "ok" /\ user_balance[s] >= price[s])
              /\ (i > 1 /\ calls[s][i].op = "update") =>
                    IF calls[s][i - 1].op = "withdraw"
                    THEN calls[s][i - 1].res # ""
                    ELSE calls[s][i - 1].res = "ok" /\ Short(s)
              /\ (i > 1 /\ calls[s][i].op = "notify") => calls[s][i - 1].res = "ok"
        /\ (pc[s] \in {"withdraw"}) <=>
              (calls[s] # <<>> /\ calls[s][Len(calls[s])].res = "")

\* C15's case: a saga that made all five calls and returned.
C15_Witness ==
    \E s \in Sagas :
        Done(s) /\ OpsOf(s) = <<"insert", "balance", "withdraw", "update", "notify">>

\* C16: a saga makes at most one withdraw call, none after a failed or
\* timed-out one, and no deposit call; billing handles a withdraw request
\* of a saga only if the saga made that call.
C16_SingleWithdraw ==
    \A s \in Sagas :
        /\ Cardinality(CallsOf(s, "withdraw")) <= 1
        /\ CallsOf(s, "deposit") = {}
        /\ bw[s] # "none" => CallsOf(s, "withdraw") # {}
        /\ WithdrawFailed(s) => pc[s] \in {"finalize", "notify", "done"}

\* C16's case: a saga whose withdraw timed out has returned, having made
\* the one call.
C16_Witness ==
    \E s \in Sagas :
        /\ Done(s) /\ Cardinality(CallsOf(s, "withdraw")) = 1
        /\ \E i \in CallsOf(s, "withdraw") : calls[s][i].res = "timeout"

\* Two sagas of one user that both passed the Decide step on the same
\* balance snapshot and whose withdraws billing both answered 200, for
\* prices that together exceed the snapshot.
BothDebited(s, t) ==
    /\ s # t /\ user_id[s] = user_id[t] /\ user_id[s] > 0
    /\ user_balance[s] = user_balance[t] /\ user_balance[s] >= 0
    /\ CallsOf(s, "withdraw") # {} /\ CallsOf(t, "withdraw") # {}
    /\ wreply[s] = "200" /\ wreply[t] = "200"
    /\ price[s] + price[t] > user_balance[s]

\* C17 as stated: when both sagas were debited for more than the account
\* held, billing's balance is below zero.
C17_Original ==
    \A s, t \in Sagas : BothDebited(s, t) => accounts[user_id[s]] < 0

\* C17 as amended: billing's balance is never below zero, also when both
\* sagas were debited for more than the account held; the account then
\* lost less than the two sagas were charged.
C17_OverdraftKeepsBalance ==
    /\ \A u \in Users : accounts[u] = NoAccount \/ accounts[u] >= 0
    /\ \A s, t \in Sagas :
          BothDebited(s, t) =>
              /\ accounts[user_id[s]] >= 0
              /\ user_balance[s] - accounts[user_id[s]] < price[s] + price[t]

\* C17's case: both sagas read the same snapshot, both passed Decide
\* before either withdraw was handled, and both orders ended paid for more
\* than the account held.
C17_Witness ==
    \E s, t \in Sagas :
        /\ BothDebited(s, t) /\ Done(s) /\ Done(t)
        /\ orders[order[s]].status = "paid" /\ orders[order[t]].status = "paid"
        /\ user_balance[s] = InitBalance

\* Saga s was debited and saga t, of the same user, passed the balance
\* check and had its withdraw refused by billing for lack of funds; both
\* have returned.
DebitedAndRefused(s, t) ==
    /\ s # t /\ user_id[s] = user_id[t] /\ Done(s) /\ Done(t)
    /\ user_balance[s] >= price[s] /\ user_balance[t] >= price[t]
    /\ wreply[s] = "200"
    /\ \E i \in CallsOf(t, "withdraw") : calls[t][i].res = "400"

\* What C18 promises of the two: the refused saga's order is cancelled and
\* its response says the order was created but payment failed; the other
\* saga's order is paid.
RefusedOutcome(s, t) ==
    /\ orders[order[t]].status = "cancelled"
    /\ resp[t].code = 400
    /\ resp[t].body.detail # <<>>
    /\ Head(resp[t].body.detail) = "Order created but payment failed"
    /\ orders[order[s]].status = "paid"

WithdrawTimedOut(s) == \E i \in CallsOf(s, "withdraw") : calls[s][i].res = "timeout"

\* What C19 promises of such a saga: order cancelled, 503 with the
\* payment-failed message, and the one withdraw call.
TimedOutOutcome(s) ==
    /\ orders[order[s]].status = "cancelled"
    /\ resp[s].code = 503
    /\ resp[s].body.detail # <<>>
    /\ Head(resp[s].body.detail) = "Order created but payment failed"
    /\ Cardinality(CallsOf(s, "withdraw")) = 1

C20_CallerTimeoutLeavesSaga ==
    /\ [](\A s \in Sagas : (gw[s] = 504 /\ ~Done(s)) => ENABLED SagaStep(s))
    /\ [][\A s \in Sagas :
             /\ (gw[s] = 0 /\ gw'[s] = 504) =>
                   UNCHANGED <<sagaVars, storeVars, billingVars>>
             /\ (gw[s] = 504) => gw'[s] = 504
             /\ (gw[s] = 504 /\ pc'[s] # pc[s]) => SagaStep(s)]_vars

\* C20's case: the caller was answered 504 while the saga was running, and
\* the saga went on to a paid order with the price taken from the account.
C20_Witness ==
    \E s \in Sagas :
        /\ gw[s] = 504 /\ Done(s) /\ resp[s].code = 201
        /\ orders[order[s]].status = "paid" /\ price[s] > 0
        /\ accounts[user_id[s]] = InitBalance - price[s]

\* Call s was told by billing that its withdraw succeeded and did not get
\* its status update through: its process died before update_order_status
\* was called, or update_order_status raised.
DebitedNotFinalized(s) ==
    /\ WithdrawOk(s)
    /\ \/ s \in down /\ CallsOf(s, "update") = {}
       \/ UpdateFailed(s)

\* C21: such a call's order is in new although billing applied the debit;
\* and from then on the call takes no step and its row is never changed
\* (no recovery), no call ever asks billing for a deposit, and every write
\* to an account is the creation of the account or the write of a
\* withdraw handler (no credit).
C21_DebitedOrderStaysNew ==
    /\ [](\A s \in Sagas :
            DebitedNotFinalized(s) =>
                /\ orders[order[s]].status = "new"
                /\ wreply[s] = "200"
                /\ \A r \in Sagas : CallsOf(r, "deposit") = {})
    /\ [][\A s \in Sagas :
             /\ (s \in down \/ Done(s)) =>
                   /\ calls'[s] = calls[s]
                   /\ pc'[s] = pc[s]
                   /\ order[s] # 0 => orders'[order[s]] = orders[order[s]]
             /\ \A u \in Users :
                   accounts'[u] # accounts[u] =>
                       \/ accounts[u] = NoAccount /\ accounts'[u] = 0
                       \/ \E r \in Sagas :
                            /\ user_id[r] = u /\ bw[r] = "loaded" /\ bw'[r] = "finished"
                            /\ accounts'[u] = bnew[r]]_vars

\* C21's case: the process died between the successful withdraw and the
\* status update; the order is in new and its price is gone from the
\* account.
C21_Witness ==
    \E s \in Sagas :
        /\ s \in down /\ DebitedNotFinalized(s) /\ price[s] > 0
        /\ orders[order[s]].status = "new"
        /\ accounts[user_id[s]] = InitBalance - price[s]
        /\ \A t \in Sagas : Done(t) \/ t \in down

\* C24: every account's balance is at least 0, and so is every balance a
\* withdraw or deposit handler has computed and is about to write.
C24_BalanceNonNegative ==
    /\ \A u \in Users : accounts[u] = NoAccount \/ accounts[u] >= 0
    /\ \A s \in Sagas : bw[s] = "loaded" => bnew[s] >= 0
    /\ \A d \in Deposits : dp[d].st = "loaded" => dp[d].new >= 0

\* C24's case: an account that received a deposit and paid a withdraw
\* stands at 0.
C24_Witness ==
    \E d \in Deposits, s \in Sagas :
        /\ dp[d].reply = "200" /\ wreply[s] = "200" /\ price[s] > 0
        /\ user_id[s] = dp[d].to
        /\ accounts[dp[d].to] = 0

\* C22: no step removes a row or changes a row's owner, price or product
\* name (a row's id is its place in the table), and every row carries the
\* caller id and the price of the call that created it.
C22_RowsKeepCreationValues ==
    /\ [](/\ Len(hist) = Len(orders)
          /\ \A o \in 1..Len(orders) :
                /\ orders[o].user_id = user_id[hist[o].by]
                /\ orders[o].price = price[hist[o].by]
                /\ order[hist[o].by] = o)
    /\ [][/\ Len(orders') >= Len(orders)
          /\ \A o \in 1..Len(orders) :
                /\ orders'[o].user_id = orders[o].user_id
                /\ orders'[o].price = orders[o].price
                /\ orders'[o].product_name = orders[o].product_name]_vars

\* C22's case: every call created a row and one row has been set to paid.
C22_Witness ==
    /\ Len(orders) = NumSagas
    /\ \E o \in 1..Len(orders) : hist[o].st = <<"new", "paid">> /\ orders[o].price > 0

\* C23: a step that changes the status of a row is the status update of
\* the call that created the row; it changes no other row, and the status
\* it writes is paid when that call's withdraw succeeded and cancelled when
\* its price exceeded its snapshot or its withdraw failed.
C23_OwnRowOnly ==
    [][\A o \in 1..Len(orders) :
          orders'[o].status # orders[o].status =>
              LET s == hist[o].by
              IN  /\ order[s] = o
                  /\ pc[s] = "finalize" /\ pc'[s] = "notify"
                  /\ orders'[o].status =
                        (IF WithdrawOk(s) THEN "paid" ELSE "cancelled")
                  /\ orders'[o].status = "cancelled" => (Short(s) \/ WithdrawFailed(s))
                  /\ \A o2 \in 1..Len(orders) : o2 # o => orders'[o2] = orders[o2]]_vars

\* C23's case: two calls of one user ran side by side, both debits were
\* requested before either status update, and their rows ended differently.
C23_Witness ==
    \E s, t \in Sagas :
        /\ s # t /\ user_id[s] = user_id[t] /\ Done(s) /\ Done(t)
        /\ user_balance[s] = user_balance[t]
        /\ CallsOf(s, "withdraw") # {} /\ CallsOf(t, "withdraw") # {}
        /\ orders[order[s]].status = "paid" /\ orders[order[t]].status = "cancelled"

\* C25: every call that has started its saga eventually returns; and a
\* call that returns after its balance read succeeded has had its status
\* update end, committed or raised, before the response.
C25_SagaReturns ==
    /\ \A s \in Sagas : (pc[s] # "idle") ~> Done(s)
    /\ [](\A s \in Sagas :
            /\ (Done(s) /\ user_balance[s] # -1) =>
                  \E i \in CallsOf(s, "update") : calls[s][i].res # ""
            /\ (Done(s) /\ IsSuccess(resp[s])) => Updated(s)
            /\ pc[s] = "finalize" => resp[s] = NoResponse)

\* C25's case: a call returned although billing never replied to its
\* withdraw request.
C25_Witness ==
    \E s \in Sagas :
        /\ Done(s) /\ WithdrawTimedOut(s) /\ bw[s] = "pending" /\ Updated(s)

\* C26: every call a saga makes addresses its caller id; its row is owned
\* by the caller and holds the validated request price, which is the
\* amount of its withdraw call and the value that was compared with the
\* snapshot; the snapshot is read from the caller's account, and the
\* handler of a saga's withdraw request writes to the caller's account
\* only.
C26_EffectsTargetCaller ==
    /\ [](\A s \in Sagas :
            /\ \A i \in 1..Len(calls[s]) : calls[s][i].to = user_id[s]
            /\ order[s] # 0 =>
                  /\ orders[order[s]].user_id = user_id[s]
                  /\ orders[order[s]].price = price[s]
            /\ \A i \in CallsOf(s, "withdraw") :
                  /\ calls[s][i].amount = orders[order[s]].price
                  /\ calls[s][i].amount <= user_balance[s]
            /\ \A i \in CallsOf(s, "notify") :
                  calls[s][i].to = orders[order[s]].user_id)
    /\ [][/\ \A s \in Sagas :
                user_balance'[s] # user_balance[s] =>
                    user_balance'[s] = accounts'[user_id[s]]
          /\ \A s \in Sagas :
                (bw[s] = "loaded" /\ bw'[s] = "finished") =>
                    \A u \in Users : u # user_id[s] => accounts'[u] = accounts[u]]_vars

\* C26's case: calls of two different users have both returned, one of
\* them debited.
C26_Witness ==
    \E s, t \in Sagas :
        /\ Done(s) /\ Done(t) /\ Valid(s) /\ Valid(t) /\ user_id[s] # user_id[t]
        /\ WithdrawOk(s) /\ price[s] > 0
        /\ CallsOf(t, "notify") # {}

\* C27: a paid order's own saga made, before its status update, a
\* withdraw call for the order's owner and price that billing answered
\* with success; an order whose saga's withdraw failed or was skipped is
\* not paid.
C27_PaidOnlyAfterWithdraw ==
    \A o \in 1..Len(orders) :
        LET s == hist[o].by
        IN  /\ orders[o].status = "paid" =>
                  /\ wreply[s] = "200"
                  /\ \E i \in CallsOf(s, "withdraw"), j \in CallsOf(s, "update") :
                        /\ i < j
                        /\ calls[s][i].res = "200"
                        /\ calls[s][i].to = orders[o].user_id
                        /\ calls[s][i].amount = orders[o].price
            /\ (WithdrawFailed(s) \/ (pc[s] # "decide" /\ Short(s))) =>
                  orders[o].status # "paid"

\* C27's case: one order is paid after its withdraw, and another order's
\* withdraw was refused and it is cancelled.
C27_Witness ==
    \E o1, o2 \in 1..Len(orders) :
        /\ orders[o1].status = "paid" /\ orders[o1].price > 0
        /\ orders[o2].status = "cancelled" /\ WithdrawFailed(hist[o2].by)

\* The sum of f over the set S.
RECURSIVE SumOver(_, _)
SumOver(S, f) ==
    IF S = {} THEN 0
    ELSE LET x == CHOOSE y \in S : TRUE IN f[x] + SumOver(S \ {x}, f)

\* What user u's account held at the start, and what has been deposited to
\* it and withdrawn from it with success since.
InitialFunds(u) == IF u = 1 THEN InitBalance ELSE 0
Deposited(u) ==
    SumOver({d \in Deposits : dp[d].reply = "200" /\ dp[d].to = u},
            [d \in Deposits |-> dp[d].amount])
Withdrawn(u) ==
    SumOver({s \in Sagas : wreply[s] = "200" /\ user_id[s] = u},
            [s \in Sagas |-> price[s]])
PaidTotal(u) ==
    SumOver({o \in 1..Len(orders) : orders[o].status = "paid" /\ orders[o].user_id = u},
            [o \in 1..Len(orders) |-> orders[o].price])

\* C28: an account's balance is what it held at the start plus the
\* deposits minus the withdraws answered with success, and the paid orders
\* of a user never add up to more than the funds that were available.
C28_FundsConserved ==
    \A u \in Users :
        /\ accounts[u] # NoAccount =>
              accounts[u] = InitialFunds(u) + Deposited(u) - Withdrawn(u)
        /\ PaidTotal(u) <= InitialFunds(u) + Deposited(u)

\* The users that have no account in billing when the behaviour starts.
FirstTimeUsers == {u \in Users : InitialFunds(u) = 0}

\* C29: no withdraw call is answered 404, and a first-time user's saga
\* whose balance read returned makes no withdraw call: it takes the
\* insufficient-funds path.
C29_NoWithdraw404 ==
    \A s \in Sagas :
        /\ wreply[s] # "404"
        /\ \A i \in CallsOf(s, "withdraw") : calls[s][i].res # "404"
        /\ (user_id[s] \in FirstTimeUsers /\ pc[s] \in {"finalize", "notify", "done"}
              /\ user_balance[s] # -1) =>
                (CallsOf(s, "withdraw") = {} /\ branch[s] = "insufficient")

\* The texts of the two cancellation notifications.
CancelTexts == {"cancelled, insufficient funds", "cancelled due to payment processing error"}

\* C30: a saga sends at most one notification, right after its committed
\* status update; the payment text goes out, with the order's price, for a
\* paid order only, and a cancellation text for a cancelled order only.
C30_OneMatchingNotification ==
    \A s \in Sagas :
        /\ Cardinality(CallsOf(s, "notify")) <= 1
        /\ \A i \in CallsOf(s, "notify") :
              LET row == orders[order[s]]
              IN  /\ i > 1 /\ calls[s][i - 1].op = "update" /\ calls[s][i - 1].res = "ok"
                  /\ calls[s][i].msg \in CancelTexts \cup {"paid successfully"}
                  /\ calls[s][i].msg = "paid successfully" <=> row.status = "paid"
                  /\ calls[s][i].msg \in CancelTexts <=> row.status = "cancelled"
                  /\ row.status = "paid" => calls[s][i].amount = row.price
                  /\ calls[s][i].to = row.user_id

\* C30's case: one saga sent the payment text and another the
\* payment-error text, which was not delivered.
C30_Witness ==
    \E s, t \in Sagas :
        /\ \E i \in CallsOf(s, "notify") : calls[s][i].msg = "paid successfully"
        /\ \E i \in CallsOf(t, "notify") :
              /\ calls[t][i].msg = "cancelled due to payment processing error"
              /\ calls[t][i].res = "failed"

====
